---------------------------- MODULE Spec2Model ----------------------------
(***************************************************************************)
(* The POST /group-tabs handler of src/server.js as a state machine.       *)
(*                                                                         *)
(* A text is a sequence of characters, each a string.  A JSON value is     *)
(* kept as its canonical text: the serialization without insignificant     *)
(* white space.  JSON.parse and the two regular expressions of the         *)
(* recovery stage are computed character by character on such texts.       *)
(***************************************************************************)
EXTENDS Integers, Sequences, FiniteSets, TLC

(***************************************************************************)
(* Characters.  The alphabet of the texts the model draws is               *)
(*   { } [ ] : 1 2 j s o n u l x, the double quote, the backtick, the      *)
(*   space and the newline.                                                *)
(* It has no comma, backslash, sign, fraction or exponent: an object or    *)
(* array holds at most one member and a number is a run of digits.         *)
(***************************************************************************)
LB == "{"
RB == "}"
LK == "["
RK == "]"
QT == "\""
CL == ":"
\* The backtick, which a TLA+ string cannot hold, is written out.
BT == "BACKTICK"
SP == " "
NL == "\n"

\* JSON white space and the regular expression class \s agree on the alphabet.
IsWs(c) == c \in {SP, NL}

IsDigit(c) == c \in {"1", "2"}

Fence == <<BT, BT, BT>>
JsonTag == <<"j", "s", "o", "n">>
NullLit == <<"n", "u", "l", "l">>

\* s has the text p at position i.
HasAt(s, i, p) ==
    /\ i >= 1
    /\ i + Len(p) - 1 <= Len(s)
    /\ \A k \in 1..Len(p) : s[i + k - 1] = p[k]

\* The first position >= i of s that holds no white space (Len(s)+1 if none).
SkipWs(s, i) ==
    LET rest == {j \in i..Len(s) : ~IsWs(s[j])}
    IN  IF rest = {} THEN Len(s) + 1
        ELSE CHOOSE j \in rest : \A k \in rest : j <= k

(***************************************************************************)
(* JSON.parse (server.js lines 119 and 131): a recursive descent over the  *)
(* text.  A result is [ok, next, val]: whether a value was read at the     *)
(* position, the position after it, and the canonical text of the value.   *)
(***************************************************************************)
ParseFail == [ok |-> FALSE, next |-> 0, val |-> <<>>]

\* A string: from the quote at j to the next quote; a raw newline inside is
\* a control character and a syntax error.
ParseString(s, j) ==
    LET closes == {k \in (j + 1)..Len(s) : s[k] = QT}
    IN  IF closes = {} THEN ParseFail
        ELSE LET k == CHOOSE c \in closes : \A d \in closes : c <= d
             IN  IF \E m \in (j + 1)..(k - 1) : s[m] = NL THEN ParseFail
                 ELSE [ok |-> TRUE, next |-> k + 1, val |-> SubSeq(s, j, k)]

\* A number: the maximal run of digits from j.
ParseNumber(s, j) ==
    LET stops == {k \in j..Len(s) : ~IsDigit(s[k])}
        e == IF stops = {} THEN Len(s) + 1
             ELSE CHOOSE k \in stops : \A d \in stops : k <= d
    IN  [ok |-> TRUE, next |-> e, val |-> SubSeq(s, j, e - 1)]

RECURSIVE ParseValue(_, _)

\* An object: {} or { "key" : value }.
ParseObject(s, j) ==
    LET k == SkipWs(s, j + 1)
    IN  IF k > Len(s) THEN ParseFail
        ELSE IF s[k] = RB
        THEN [ok |-> TRUE, next |-> k + 1, val |-> <<LB, RB>>]
        ELSE IF s[k] # QT THEN ParseFail
        ELSE LET key == ParseString(s, k)
             IN  IF ~key.ok THEN ParseFail
                 ELSE LET c == SkipWs(s, key.next)
                      IN  IF c > Len(s) \/ s[c] # CL THEN ParseFail
                          ELSE LET v == ParseValue(s, c + 1)
                               IN  IF ~v.ok THEN ParseFail
                                   ELSE LET e == SkipWs(s, v.next)
                                        IN  IF e > Len(s) \/ s[e] # RB
                                            THEN ParseFail
                                            ELSE [ok |-> TRUE, next |-> e + 1,
                                                  val |-> <<LB>> \o key.val
                                                          \o <<CL>> \o v.val
                                                          \o <<RB>>]

\* An array: [] or [ value ].
ParseArray(s, j) ==
    LET k == SkipWs(s, j + 1)
    IN  IF k > Len(s) THEN ParseFail
        ELSE IF s[k] = RK
        THEN [ok |-> TRUE, next |-> k + 1, val |-> <<LK, RK>>]
        ELSE LET v == ParseValue(s, k)
             IN  IF ~v.ok THEN ParseFail
                 ELSE LET e == SkipWs(s, v.next)
                      IN  IF e > Len(s) \/ s[e] # RK THEN ParseFail
                          ELSE [ok |-> TRUE, next |-> e + 1,
                                val |-> <<LK>> \o v.val \o <<RK>>]

ParseValue(s, i) ==
    LET j == SkipWs(s, i)
    IN  IF j > Len(s) THEN ParseFail
        ELSE IF s[j] = LB THEN ParseObject(s, j)
        ELSE IF s[j] = LK THEN ParseArray(s, j)
        ELSE IF s[j] = QT THEN ParseString(s, j)
        ELSE IF IsDigit(s[j]) THEN ParseNumber(s, j)
        ELSE IF HasAt(s, j, NullLit)
        THEN [ok |-> TRUE, next |-> j + 4, val |-> NullLit]
        ELSE ParseFail

\* JSON.parse(s): one value, white space around it, nothing else.
JSONParse(s) ==
    LET v == ParseValue(s, 1)
    IN  IF v.ok /\ SkipWs(s, v.next) > Len(s)
        THEN [ok |-> TRUE, val |-> v.val]
        ELSE [ok |-> FALSE, val |-> <<>>]

\* typeof v === "object" for a parsed value: objects, arrays and null.
TypeofIsObject(v) == Len(v) > 0 /\ (v[1] \in {LB, LK} \/ v = NullLit)

IsNull(v) == v = NullLit

IsMapping(v) == Len(v) > 0 /\ v[1] = LB

(***************************************************************************)
(* The regular expressions of the recovery stage (server.js lines 125-127).*)
(* A match is [found, cap]: cap is capture group 1.                        *)
(***************************************************************************)
NoMatch == [found |-> FALSE, cap |-> <<>>]

\* The ends q of the lazy group \{[\s\S]*?\} opened at p: a closing brace
\* followed by \s* and a fence.
FenceEnds(s, p) ==
    {q \in (p + 1)..Len(s) : s[q] = RB /\ HasAt(s, SkipWs(s, q + 1), Fence)}

\* (\{[\s\S]*?\})\s*BT{3} at p: the lazy group takes the nearest such end.
FenceBody(s, p) ==
    IF p <= Len(s) /\ s[p] = LB /\ FenceEnds(s, p) # {}
    THEN LET q == CHOOSE e \in FenceEnds(s, p) : \A d \in FenceEnds(s, p) : e <= d
         IN  [found |-> TRUE, cap |-> SubSeq(s, p, q)]
    ELSE NoMatch

\* One attempt of /BT{3}(?:json)?\s*(\{[\s\S]*?\})\s*BT{3}/ at position i: the
\* optional tag is tried first, then skipped on backtracking.
FenceMatchAt(s, i) ==
    IF ~HasAt(s, i, Fence) THEN NoMatch
    ELSE LET tagged == IF HasAt(s, i + 3, JsonTag)
                       THEN FenceBody(s, SkipWs(s, i + 7))
                       ELSE NoMatch
         IN  IF tagged.found THEN tagged
             ELSE FenceBody(s, SkipWs(s, i + 3))

\* resultText.match(/BT{3}(?:json)?\s*(\{[\s\S]*?\})\s*BT{3}/): the leftmost
\* position where an attempt succeeds.
FencedMatch(s) ==
    LET starts == {i \in 1..Len(s) : FenceMatchAt(s, i).found}
    IN  IF starts = {} THEN NoMatch
        ELSE FenceMatchAt(s, CHOOSE i \in starts : \A k \in starts : i <= k)

\* resultText.match(/(\{[\s\S]*\})/): from the first opening brace to the
\* last closing brace after it.
GreedyMatch(s) ==
    LET opens == {p \in 1..Len(s) : s[p] = LB}
    IN  IF opens = {} THEN NoMatch
        ELSE LET p == CHOOSE o \in opens : \A k \in opens : o <= k
                 closes == {q \in (p + 1)..Len(s) : s[q] = RB}
             IN  IF closes = {} THEN NoMatch
                 ELSE [found |-> TRUE,
                       cap |-> SubSeq(s, p,
                                 CHOOSE q \in closes : \A k \in closes : k <= q)]

\* A variant of JsonMatch that tries the greedy pattern first.
JsonMatchGreedyFirst(s) ==
    IF GreedyMatch(s).found THEN GreedyMatch(s) ELSE FencedMatch(s)

\* jsonMatch: the fenced pattern, or failing that the greedy one.
JsonMatch(s) ==
    IF FencedMatch(s).found THEN FencedMatch(s) ELSE GreedyMatch(s)


(***************************************************************************)
(* Program constants.                                                      *)
(***************************************************************************)
\* A variant of maxAttempts that allows one attempt more.
maxAttemptsOneMore == 3 + 1

maxAttempts == 3

BackoffUnit == 1000

RawLimit == 500

(***************************************************************************)
(* Bounds of the inputs.                                                   *)
(***************************************************************************)
\* The nesting depth of the JSON values the upstream text may hold.
MaxDepth == 1

\* How many characters the long upstream texts run past the excerpt limit.
Overrun == 1

(***************************************************************************)
(* Inputs: request bodies.  A tabs field is absent or a list; an element   *)
(* of the list is a tab object with an id, or null.                        *)
(***************************************************************************)
Tab(n) == [nul |-> FALSE, id |-> n]

NullTab == [nul |-> TRUE, id |-> 0]

NoTabs == [present |-> FALSE, items |-> <<>>]

TabList(items) == [present |-> TRUE, items |-> items]

TabsInputs ==
    {NoTabs, TabList(<<>>), TabList(<<Tab(1)>>), TabList(<<Tab(1), Tab(2)>>),
     TabList(<<NullTab>>), TabList(<<Tab(1), NullTab>>)}

(***************************************************************************)
(* Inputs: the texts the upstream may send.                                *)
(***************************************************************************)
\* The bodies of JSON strings: letters, braces, backticks, a fence, and a
\* closing brace right before a fence.
StringBodies ==
    {<<"x">>, <<LB>>, <<RB>>, <<BT>>, Fence, <<RB>> \o Fence}

Quoted(b) == <<QT>> \o b \o <<QT>>

Atoms ==
    {<<"1">>, NullLit, <<LK, RK>>, <<LB, RB>>} \cup {Quoted(b) : b \in StringBodies}

\* The canonical JSON values of nesting depth at most d.
RECURSIVE Values(_)
Values(d) ==
    IF d = 0 THEN Atoms
    ELSE LET inner == Values(d - 1)
         IN  inner \cup {<<LK>> \o v \o <<RK>> : v \in inner}
                   \cup {<<LB>> \o Quoted(<<"x">>) \o <<CL>> \o v \o <<RB>> : v \in inner}

JsonValues == Values(MaxDepth)

Mappings == {v \in JsonValues : IsMapping(v)}

\* Prose: what the upstream writes in front of the JSON value and after it.
ProseBefore == {<<>>, <<"x">>, <<LB>>, <<RB>>, Fence, Fence \o <<LB>>}

ProseAfter == {<<>>, <<"x">>, <<RB>>}

\* A fenced block: the fence, an optional json tag, the serialization on a
\* line of its own, the fence.
Fenced(tagged, v) ==
    Fence \o (IF tagged THEN JsonTag ELSE <<>>) \o <<NL>> \o v \o <<NL>> \o Fence

\* The values the upstream wraps in prose or a fence: every mapping, and a
\* number and an array.
Wrapped == Mappings \cup {<<"1">>, <<LK, RK>>}

DirectTexts == JsonValues \cup {<<NL>> \o v \o <<SP>> : v \in JsonValues}

FencedTexts ==
    {a \o Fenced(tg, v) \o b :
        a \in ProseBefore, tg \in BOOLEAN, v \in Wrapped, b \in ProseAfter}

BareTexts == {a \o v \o b : a \in ProseBefore, v \in Wrapped, b \in ProseAfter}

ProseTexts == {a \o b : a \in ProseBefore, b \in ProseAfter}

\* n letters.
Filler(n) == [i \in 1..n |-> "x"]

\* Texts longer than the excerpt of an error reply: prose, braces around
\* prose, and a JSON string.
LongTexts ==
    {Filler(RawLimit + Overrun),
     <<LB>> \o Filler(RawLimit + Overrun) \o <<RB>>,
     Quoted(Filler(RawLimit + Overrun))}

Texts == DirectTexts \cup FencedTexts \cup BareTexts \cup ProseTexts \cup LongTexts

\* The texts used where the text itself is not what varies.
FewTexts == {<<LB, RB>>, <<"x">>, <<"1">>}

(***************************************************************************)
(* Inputs: upstream responses.  kind is what the awaited call resolved to; *)
(* for an object, keys are its own keys, text its direct text field and    *)
(* cand the text at candidates[0].content.parts[0] (has = FALSE when some  *)
(* link of that path is missing); for a string, str is the string.         *)
(***************************************************************************)
Absent == [has |-> FALSE, val |-> <<>>]

Field(t) == [has |-> TRUE, val |-> t]

NoResponse ==
    [kind |-> "unset", keys |-> {}, text |-> Absent, cand |-> Absent, str |-> <<>>]

ObjectResponse(keys, text, cand) ==
    [kind |-> "object", keys |-> keys, text |-> text, cand |-> cand, str |-> <<>>]

StringResponse(s) ==
    [kind |-> "string", keys |-> {}, text |-> Absent, cand |-> Absent, str |-> s]

OtherResponse(k) ==
    [kind |-> k, keys |-> {}, text |-> Absent, cand |-> Absent, str |-> <<>>]

DirectResponses == {ObjectResponse({"text"}, Field(t), Absent) : t \in Texts}

NestedResponses ==
    {ObjectResponse({"candidates"} \cup ks, tx, Field(t)) :
        t \in FewTexts,
        ks \in {{}, {"text"}},
        tx \in {Absent, Field(<<>>)}}

BothResponses ==
    {ObjectResponse({"text", "candidates"}, Field(t), Field(u)) :
        t \in FewTexts, u \in FewTexts \cup {<<>>}}

StringResponses == {StringResponse(s) : s \in FewTexts \cup {<<>>}}

UnrecognizedResponses ==
    {ObjectResponse({}, Absent, Absent),
     ObjectResponse({"usageMetadata"}, Absent, Absent),
     ObjectResponse({"text"}, Field(<<>>), Absent),
     ObjectResponse({"candidates", "usageMetadata"}, Absent, Absent),
     ObjectResponse({"candidates"}, Absent, Field(<<>>)),
     OtherResponse("number"), OtherResponse("null"), OtherResponse("undefined")}

Responses ==
    DirectResponses \cup NestedResponses \cup BothResponses
        \cup StringResponses \cup UnrecognizedResponses

\* The messages of the errors the upstream call may reject with.
ErrorMessages == {"fetch failed", "503 Service Unavailable"}

(***************************************************************************)
(* State.  Every variable is a function of the request: the handler keeps  *)
(* its locals in the closure of one call.                                  *)
(***************************************************************************)
Requests == {"r1", "r2"}

VARIABLES
    pc,          \* where the handler of the request stands
    tabs,        \* req.body.tabs
    prompt,      \* the ids rendered into the prompt, in order
    attempts,    \* the local attempts (line 66)
    calls,       \* upstream invocations started (line 71)
    waits,       \* the backoff waits started, in order (line 88)
    outcomes,    \* how each upstream call ended, in order
    response,    \* the local response (line 65)
    resultText,  \* the local resultText (line 95)
    groups,      \* the local groups (line 116)
    res          \* the HTTP responses sent, in order

vars ==
    <<pc, tabs, prompt, attempts, calls, waits, outcomes, response,
      resultText, groups, res>>

\* How an upstream call ended: it rejected with an error of message msg, or
\* it resolved with resp.
Rejected(msg) == [ok |-> FALSE, msg |-> msg, resp |-> NoResponse]

Resolved(resp) == [ok |-> TRUE, msg |-> "", resp |-> resp]

\* An HTTP response: the status and the JSON document; present names the
\* fields of an error document, and is empty when the document is groups.
Reply(status, error, present) ==
    [status |-> status, error |-> error, present |-> present,
     details |-> "", responseKeys |-> {}, rawResponse |-> <<>>,
     received |-> <<>>, json |-> <<>>]

\* A variant of NoTabsReply that answers the input error as a server error.
NoTabsReplyServerError == Reply(500, "No tabs provided", {"error"})

\* res.status(400).json({ error: "No tabs provided" })
NoTabsReply == Reply(400, "No tabs provided", {"error"})

\* The top-level catch: res.status(500).json({ error, details }).
CatchReply(message) ==
    [Reply(500, "Something went wrong", {"error", "details"})
        EXCEPT !.details = message]

ExtractionReply(keys) ==
    [Reply(500, "Unexpected API response structure", {"error", "responseKeys"})
        EXCEPT !.responseKeys = keys]

\* resultText.substring(0, n)
Substring(s, n) == SubSeq(s, 1, IF Len(s) < n THEN Len(s) ELSE n)

ParseFailedReply(text) ==
    [Reply(500, "Failed to parse AI response as JSON", {"error", "rawResponse"})
        EXCEPT !.rawResponse = Substring(text, RawLimit)]

\* A variant of NoJsonReply with the error string of the other branch.
NoJsonReplyOtherError(text) ==
    [Reply(500, "Failed to parse AI response as JSON", {"error", "rawResponse"})
        EXCEPT !.rawResponse = Substring(text, RawLimit)]

NoJsonReply(text) ==
    [Reply(500, "No valid JSON found in AI response", {"error", "rawResponse"})
        EXCEPT !.rawResponse = Substring(text, RawLimit)]

InvalidStructureReply(g) ==
    [Reply(500, "Invalid response structure from AI", {"error", "received"})
        EXCEPT !.received = g]

\* res.json(groups)
\* A variant of GroupsReply that wraps the value in an envelope object.
GroupsReplyEnveloped(g) ==
    [Reply(200, "", {}) EXCEPT
        !.json = <<LB>> \o Quoted(<<"x">>) \o <<CL>> \o g \o <<RB>>]

GroupsReply(g) == [Reply(200, "", {}) EXCEPT !.json = g]

\* The TypeError of tab.id on a null element (line 48).
NullTabMessage == "Cannot read properties of null (reading id)"

\* The TypeError of Object.keys on null or undefined (line 92).
NullKeysMessage == "Cannot convert undefined or null to object"

\* The request ends with the HTTP response rep.
Finish(r, stage, rep) ==
    /\ pc' = [pc EXCEPT ![r] = stage]
    /\ res' = [res EXCEPT ![r] = Append(@, rep)]

\* The state of a request whose handler has just been entered.
Fresh(r, started) ==
    /\ pc[r] = IF started THEN "Validating" ELSE "Idle"
    /\ tabs[r] \in IF started THEN TabsInputs ELSE {NoTabs}
    /\ prompt[r] = <<>>
    /\ attempts[r] = 0
    /\ calls[r] = 0
    /\ waits[r] = <<>>
    /\ outcomes[r] = <<>>
    /\ response[r] = NoResponse
    /\ resultText[r] = <<>>
    /\ groups[r] = <<>>
    /\ res[r] = <<>>

InitShape ==
    /\ pc \in [Requests -> {"Idle", "Validating"}]
    /\ tabs \in [Requests -> TabsInputs]
    /\ prompt = [r \in Requests |-> <<>>]
    /\ attempts = [r \in Requests |-> 0]
    /\ calls = [r \in Requests |-> 0]
    /\ waits = [r \in Requests |-> <<>>]
    /\ outcomes = [r \in Requests |-> <<>>]
    /\ response = [r \in Requests |-> NoResponse]
    /\ resultText = [r \in Requests |-> <<>>]
    /\ groups = [r \in Requests |-> <<>>]
    /\ res = [r \in Requests |-> <<>>]

\* One request arrives.
Init == InitShape /\ Fresh("r1", TRUE) /\ Fresh("r2", FALSE)

(***************************************************************************)
(* Lines 37-71: the input check, the prompt and the first upstream call.   *)
(***************************************************************************)
\* !tabs || tabs.length === 0
TabsRejected(t) == ~t.present \/ Len(t.items) = 0

\* tabs.map(tab => ...ID:${tab.id}...): throws on a null element.
PromptThrows(t) == \E i \in 1..Len(t.items) : t.items[i].nul

PromptOf(t) == [i \in 1..Len(t.items) |-> t.items[i].id]

\* while (attempts < maxAttempts): the call of line 71 starts, or the loop
\* is left for line 91.
EnterLoop(r, n) ==
    IF n < maxAttempts
    THEN /\ pc' = [pc EXCEPT ![r] = "Invoking"]
         /\ calls' = [calls EXCEPT ![r] = @ + 1]
    ELSE /\ pc' = [pc EXCEPT ![r] = "Extracting"]
         /\ UNCHANGED calls

ValidateInput(r) ==
    /\ pc[r] = "Validating"
    /\ IF TabsRejected(tabs[r])
       THEN /\ Finish(r, "Failed", NoTabsReply)
            /\ UNCHANGED <<prompt, calls>>
       ELSE IF PromptThrows(tabs[r])
       THEN /\ Finish(r, "Failed", CatchReply(NullTabMessage))
            /\ UNCHANGED <<prompt, calls>>
       ELSE /\ prompt' = [prompt EXCEPT ![r] = PromptOf(tabs[r])]
            /\ EnterLoop(r, attempts[r])
            /\ UNCHANGED res
    /\ UNCHANGED <<tabs, attempts, waits, outcomes, response, resultText, groups>>

(***************************************************************************)
(* Lines 69-90: the retry loop.                                            *)
(***************************************************************************)
\* A variant of UpstreamReturn without the break: the response is kept and
\* the loop goes on to its backoff.
UpstreamReturnNoBreak(r, resp) ==
    /\ pc[r] = "Invoking"
    /\ outcomes' = [outcomes EXCEPT ![r] = Append(@, Resolved(resp))]
    /\ response' = [response EXCEPT ![r] = resp]
    /\ pc' = [pc EXCEPT ![r] = IF calls[r] < maxAttempts THEN "Waiting" ELSE "Extracting"]
    /\ UNCHANGED <<tabs, prompt, attempts, calls, waits, resultText, groups, res>>

\* The awaited call resolves with resp: response is set and the loop left.
UpstreamReturn(r, resp) ==
    /\ pc[r] = "Invoking"
    /\ outcomes' = [outcomes EXCEPT ![r] = Append(@, Resolved(resp))]
    /\ response' = [response EXCEPT ![r] = resp]
    /\ pc' = [pc EXCEPT ![r] = "Extracting"]
    /\ UNCHANGED <<tabs, prompt, attempts, calls, waits, resultText, groups, res>>

\* A variant of WaitTime with a flat backoff.
WaitTimeFlat(n) == BackoffUnit

\* const waitTime = 1000 * attempts
WaitTime(n) == BackoffUnit * n

\* A variant of GivesUp that is late by one: it waits after the last failure
\* too.
GivesUpLate(n) == n > maxAttempts

\* attempts >= maxAttempts: give up.
GivesUp(n) == n >= maxAttempts

\* A variant of ThrownMessage that keeps the error of the first failure.
ThrownMessageFirst(earlier, msg) ==
    IF earlier = <<>> THEN msg ELSE earlier[1].msg

\* throw apiError: the message the top-level catch receives, given the
\* messages of the earlier failures and of this one.
ThrownMessage(earlier, msg) == msg

\* A variant of UpstreamFail with the attempt counter kept outside the
\* handler: a failure counts for every request.
UpstreamFailShared(r, msg) ==
    /\ pc[r] = "Invoking"
    /\ attempts' = [q \in Requests |-> attempts[q] + 1]
    /\ outcomes' = [outcomes EXCEPT ![r] = Append(@, Rejected(msg))]
    /\ IF GivesUp(attempts'[r])
       THEN /\ Finish(r, "Failed",
                      CatchReply(ThrownMessage(outcomes[r], msg)))
            /\ UNCHANGED waits
       ELSE /\ waits' = [waits EXCEPT ![r] = Append(@, WaitTime(attempts'[r]))]
            /\ pc' = [pc EXCEPT ![r] = "Waiting"]
            /\ UNCHANGED res
    /\ UNCHANGED <<tabs, prompt, calls, response, resultText, groups>>

\* The awaited call rejects with an error of message msg: the catch block.
UpstreamFail(r, msg) ==
    /\ pc[r] = "Invoking"
    /\ attempts' = [attempts EXCEPT ![r] = @ + 1]
    /\ outcomes' = [outcomes EXCEPT ![r] = Append(@, Rejected(msg))]
    /\ IF GivesUp(attempts'[r])
       THEN /\ Finish(r, "Failed",
                      CatchReply(ThrownMessage(outcomes[r], msg)))
            /\ UNCHANGED waits
       ELSE /\ waits' = [waits EXCEPT ![r] = Append(@, WaitTime(attempts'[r]))]
            /\ pc' = [pc EXCEPT ![r] = "Waiting"]
            /\ UNCHANGED res
    /\ UNCHANGED <<tabs, prompt, calls, response, resultText, groups>>

\* A variant of TimerFires whose promise is never resolved: the handler stays
\* suspended.
TimerFiresNever(r) ==
    /\ pc[r] = "Waiting"
    /\ UNCHANGED vars

\* The backoff timer fires: the loop condition is tested again.
TimerFires(r) ==
    /\ pc[r] = "Waiting"
    /\ EnterLoop(r, attempts[r])
    /\ UNCHANGED <<tabs, prompt, attempts, waits, outcomes, response, resultText,
                   groups, res>>

(***************************************************************************)
(* Lines 91-113: the text of the response.                                 *)
(***************************************************************************)
\* Object.keys(response) and response.text throw on null and undefined; the
\* loop left without a response leaves it undefined.
KeysThrow(resp) == resp.kind \in {"unset", "undefined", "null"}

\* A field is truthy when it is there and not the empty string.
Truthy(f) == f.has /\ f.val # <<>>

\* A variant of ShapeOf that looks at the nested candidate first.
ShapeOfNestedFirst(resp) ==
    IF Truthy(resp.cand) THEN "candidates"
    ELSE IF Truthy(resp.text) THEN "text"
    ELSE IF resp.kind = "string" THEN "string"
    ELSE "none"

\* Which of the three shapes the if-chain of lines 96-102 takes.
ShapeOf(resp) ==
    IF Truthy(resp.text) THEN "text"
    ELSE IF Truthy(resp.cand) THEN "candidates"
    ELSE IF resp.kind = "string" THEN "string"
    ELSE "none"

TextOf(resp) ==
    IF ShapeOf(resp) = "text" THEN resp.text.val
    ELSE IF ShapeOf(resp) = "candidates" THEN resp.cand.val
    ELSE resp.str

\* Object.keys(response) in the reply of line 109: the own keys of the
\* object (none for a number).
KeysOf(resp) == resp.keys

\* A variant of ExtractText without the return of line 107: the error is
\* sent and the handler goes on.
ExtractTextNoReturn(r) ==
    /\ pc[r] = "Extracting"
    /\ IF KeysThrow(response[r])
       THEN /\ Finish(r, "Failed", CatchReply(NullKeysMessage))
            /\ UNCHANGED resultText
       ELSE IF ShapeOf(response[r]) = "none"
       THEN /\ Finish(r, "Recovering", ExtractionReply(KeysOf(response[r])))
            /\ UNCHANGED resultText
       ELSE /\ resultText' = [resultText EXCEPT ![r] = TextOf(response[r])]
            /\ pc' = [pc EXCEPT ![r] = "Recovering"]
            /\ UNCHANGED res
    /\ UNCHANGED <<tabs, prompt, attempts, calls, waits, outcomes, response, groups>>

ExtractText(r) ==
    /\ pc[r] = "Extracting"
    /\ IF KeysThrow(response[r])
       THEN /\ Finish(r, "Failed", CatchReply(NullKeysMessage))
            /\ UNCHANGED resultText
       ELSE IF ShapeOf(response[r]) = "none"
       THEN /\ Finish(r, "Failed", ExtractionReply(KeysOf(response[r])))
            /\ UNCHANGED resultText
       ELSE /\ resultText' = [resultText EXCEPT ![r] = TextOf(response[r])]
            /\ pc' = [pc EXCEPT ![r] = "Recovering"]
            /\ UNCHANGED res
    /\ UNCHANGED <<tabs, prompt, attempts, calls, waits, outcomes, response, groups>>

(***************************************************************************)
(* Lines 116-147: the JSON value of the text.                              *)
(***************************************************************************)
\* The outcome of the stage for a text: the value, or the error reply.
Recovery(text) ==
    LET direct == JSONParse(text)
        m == JsonMatch(text)
        inner == JSONParse(m.cap)
    IN  IF direct.ok THEN [ok |-> TRUE, val |-> direct.val, rep |-> GroupsReply(<<>>)]
        ELSE IF ~m.found THEN [ok |-> FALSE, val |-> <<>>, rep |-> NoJsonReply(text)]
        ELSE IF inner.ok THEN [ok |-> TRUE, val |-> inner.val, rep |-> GroupsReply(<<>>)]
        ELSE [ok |-> FALSE, val |-> <<>>, rep |-> ParseFailedReply(text)]

\* A variant of RecoverJSON that answers with the recovered value at once,
\* without the structure check.
RecoverJSONAnswers(r) ==
    /\ pc[r] = "Recovering"
    /\ LET out == Recovery(resultText[r])
       IN  IF out.ok
           THEN /\ groups' = [groups EXCEPT ![r] = out.val]
                /\ Finish(r, "Done", GroupsReply(out.val))
           ELSE /\ Finish(r, "Failed", out.rep)
                /\ UNCHANGED groups
    /\ UNCHANGED <<tabs, prompt, attempts, calls, waits, outcomes, response,
                   resultText>>

RecoverJSON(r) ==
    /\ pc[r] = "Recovering"
    /\ LET out == Recovery(resultText[r])
       IN  IF out.ok
           THEN /\ groups' = [groups EXCEPT ![r] = out.val]
                /\ pc' = [pc EXCEPT ![r] = "ValidatingShape"]
                /\ UNCHANGED res
           ELSE /\ Finish(r, "Failed", out.rep)
                /\ UNCHANGED groups
    /\ UNCHANGED <<tabs, prompt, attempts, calls, waits, outcomes, response,
                   resultText>>

(***************************************************************************)
(* Lines 149-161: the structure check and the answer.                      *)
(***************************************************************************)
\* typeof groups !== "object" || groups === null
StructureRejected(g) == ~TypeofIsObject(g) \/ IsNull(g)

ValidateShape(r) ==
    /\ pc[r] = "ValidatingShape"
    /\ IF StructureRejected(groups[r])
       THEN Finish(r, "Failed", InvalidStructureReply(groups[r]))
       ELSE Finish(r, "Done", GroupsReply(groups[r]))
    /\ UNCHANGED <<tabs, prompt, attempts, calls, waits, outcomes, response,
                   resultText, groups>>

Next ==
    \E r \in Requests :
        \/ ValidateInput(r)
        \/ \E resp \in Responses : UpstreamReturn(r, resp)
        \/ \E msg \in ErrorMessages : UpstreamFail(r, msg)
        \/ TimerFires(r)
        \/ ExtractText(r)
        \/ RecoverJSON(r)
        \/ ValidateShape(r)

Spec == Init /\ [][Next]_vars

(***************************************************************************)
(* Two requests at once.  The handler is async: the server takes the next  *)
(* request while another is suspended at the await of the upstream call    *)
(* (line 71) or of the backoff timer (line 87), and the steps of the two   *)
(* interleave at these points.                                             *)
(***************************************************************************)
\* The upstream responses of these runs: one for each way a request ends.
FewResponses ==
    {ObjectResponse({"text"}, Field(t), Absent) : t \in FewTexts \cup {<<LB, "x", RB>>}}
        \cup {ObjectResponse({"usageMetadata"}, Absent, Absent), OtherResponse("null")}

\* Two requests have arrived and neither has been answered.
InitConc == InitShape /\ Fresh("r1", TRUE) /\ Fresh("r2", TRUE)

NextConc ==
    \E r \in Requests :
        \/ ValidateInput(r)
        \/ \E resp \in FewResponses : UpstreamReturn(r, resp)
        \/ \E msg \in ErrorMessages : UpstreamFail(r, msg)
        \/ TimerFires(r)
        \/ ExtractText(r)
        \/ RecoverJSON(r)
        \/ ValidateShape(r)

SpecConc == InitConc /\ [][NextConc]_vars

(***************************************************************************)
(* Progress.  The event loop runs a continuation that is ready, so a step  *)
(* of the handler that waits for nothing is taken, and a timer set by      *)
(* setTimeout (line 87) fires.  Nothing in the handler bounds the time of  *)
(* the upstream call of line 71: no timeout, no abort signal.              *)
(***************************************************************************)
HandlerStep(r) ==
    ValidateInput(r) \/ ExtractText(r) \/ RecoverJSON(r) \/ ValidateShape(r)

SpecLive ==
    /\ Init
    /\ [][NextConc]_vars
    /\ \A r \in Requests : WF_vars(HandlerStep(r)) /\ WF_vars(TimerFires(r))

(***************************************************************************)
(* Properties.                                                             *)
(***************************************************************************)
Finished(r) == pc[r] \in {"Done", "Failed"}

\* Every upstream call of the request so far was rejected.
AllRejected(r) == \A i \in 1..Len(outcomes[r]) : ~outcomes[r][i].ok

\* The last upstream call of the request resolved.
Succeeded(r) == outcomes[r] # <<>> /\ outcomes[r][Len(outcomes[r])].ok

\* C1: a request never makes more than 3 upstream calls; when every call is
\* rejected, the request ends at the 3rd rejection with exactly 3 calls made
\* and neither a wait nor a 4th call started.
C1_AtMostThreeCalls ==
    \A r \in Requests :
        /\ calls[r] <= 3
        /\ Len(outcomes[r]) <= calls[r]
        /\ (outcomes[r] # <<>> /\ AllRejected(r) /\ Finished(r))
              => calls[r] = 3 /\ Len(outcomes[r]) = 3
        /\ (Len(outcomes[r]) = 3 /\ AllRejected(r))
              => pc[r] = "Failed" /\ Len(waits[r]) = 2

C1_Witness ==
    \E r \in Requests :
        /\ pc[r] = "Failed"
        /\ Len(outcomes[r]) = 3
        /\ AllRejected(r)
        /\ calls[r] = 3

\* The calls 1 and 2 of the request were rejected and call 3 resolved.
FailFailSucceed(r) ==
    /\ Len(outcomes[r]) = 3
    /\ ~outcomes[r][1].ok
    /\ ~outcomes[r][2].ok
    /\ outcomes[r][3].ok

\* The later stages of the request have read the text of resp.
UsesTextOf(r, resp) ==
    pc[r] \in {"Recovering", "ValidatingShape", "Done"} =>
        resultText[r] \in {resp.text.val, resp.cand.val, resp.str}

\* C2: after rejections of calls 1 and 2 and a resolved call 3, exactly 3
\* calls were made, the waits were 1000 ms then 2000 ms, and the response
\* the later stages work on is the one call 3 resolved with.
C2_ThirdAttemptSucceeds ==
    \A r \in Requests :
        FailFailSucceed(r) =>
            /\ calls[r] = 3
            /\ waits[r] = <<1000, 2000>>
            /\ response[r] = outcomes[r][3].resp
            /\ UsesTextOf(r, outcomes[r][3].resp)

C2_Witness ==
    \E r \in Requests :
        /\ FailFailSucceed(r)
        /\ pc[r] = "Done"
        /\ waits[r] = <<1000, 2000>>
        /\ res[r] # <<>>

\* C3: once an upstream call of a request has resolved, the request is out
\* of the retry loop with that response, and no later step makes a call,
\* starts a wait or replaces the response.
C3_SuccessLeavesLoop ==
    /\ [](\A r \in Requests :
            Succeeded(r) =>
                /\ pc[r] \notin {"Validating", "Invoking", "Waiting"}
                /\ response[r] = outcomes[r][Len(outcomes[r])].resp
                /\ Len(outcomes[r]) = calls[r]
                /\ Len(waits[r]) = calls[r] - 1)
    /\ [][\A r \in Requests :
            Succeeded(r) =>
                /\ calls'[r] = calls[r]
                /\ waits'[r] = waits[r]
                /\ outcomes'[r] = outcomes[r]
                /\ response'[r] = response[r]]_vars

C3_Witness ==
    \E r \in Requests :
        /\ Len(outcomes[r]) = 2
        /\ Succeeded(r)
        /\ pc[r] = "Done"
        /\ calls[r] = 2
        /\ waits[r] = <<1000>>

\* C4: when all 3 upstream calls are rejected, the request is answered 500
\* with error Something went wrong and details the message of the 3rd
\* rejection, and no response, text or parsed value was ever produced.
C4_LastErrorReported ==
    \A r \in Requests :
        (Len(outcomes[r]) = 3 /\ AllRejected(r)) =>
            /\ pc[r] = "Failed"
            /\ Len(res[r]) = 1
            /\ res[r][1].status = 500
            /\ res[r][1].error = "Something went wrong"
            /\ res[r][1].present = {"error", "details"}
            /\ res[r][1].details = outcomes[r][3].msg
            /\ response[r] = NoResponse
            /\ resultText[r] = <<>>
            /\ groups[r] = <<>>

C4_Witness ==
    \E r \in Requests :
        /\ Len(outcomes[r]) = 3
        /\ AllRejected(r)
        /\ outcomes[r][3].msg # outcomes[r][1].msg
        /\ outcomes[r][3].msg # outcomes[r][2].msg
        /\ res[r] # <<>>
        /\ res[r][1].details = outcomes[r][3].msg

\* The single HTTP response of a finished request.
Answer(r) == res[r][1]

\* C5: a request whose tabs field is missing or an empty list is answered
\* 400 with error No tabs provided and makes no upstream call; a request
\* whose tabs field is a non-empty list is never answered 400 and, once past
\* the input check, has made at least one upstream call.
C5_InputCheckDecides ==
    \A r \in Requests :
        /\ ((~tabs[r].present \/ Len(tabs[r].items) = 0) /\ Finished(r))
              => /\ Len(res[r]) = 1
                 /\ Answer(r).status = 400
                 /\ Answer(r).error = "No tabs provided"
                 /\ calls[r] = 0
        /\ (tabs[r].present /\ Len(tabs[r].items) > 0)
              => /\ \A i \in 1..Len(res[r]) : res[r][i].status # 400
                 /\ (pc[r] \notin {"Idle", "Validating"} => calls[r] >= 1)

\* C6: of a parsed value the structure check rejects arrays, strings,
\* numbers and null (500, Invalid response structure from AI) and accepts
\* every mapping (200 with the mapping as the document).
C6_ValidatorAcceptsOnlyMappings ==
    \A r \in Requests :
        (Finished(r) /\ groups[r] # <<>>) =>
            /\ Len(res[r]) = 1
            /\ IF groups[r][1] = LB
               THEN /\ Answer(r).status = 200
                    /\ Answer(r).json = groups[r]
               ELSE /\ Answer(r).status = 500
                    /\ Answer(r).error = "Invalid response structure from AI"

\* The request has a text extracted from its response: it stands in a later
\* stage, or it failed there.
Extracted(r) ==
    \/ pc[r] \in {"Recovering", "ValidatingShape", "Done"}
    \/ /\ pc[r] = "Failed"
       /\ res[r] # <<>>
       /\ Answer(r).error \in {"Failed to parse AI response as JSON",
                               "No valid JSON found in AI response",
                               "Invalid response structure from AI"}

NoBraces(s) == \A i \in 1..Len(s) : s[i] \notin {LB, RB}

NoJsonAnswer(r) ==
    /\ Len(res[r]) = 1
    /\ Answer(r).status = 500
    /\ Answer(r).error = "No valid JSON found in AI response"

\* C7 as stated: every finished request whose extracted text holds no brace
\* is answered 500 with error No valid JSON found in AI response.
C7_NoBracesAlwaysParseError ==
    \A r \in Requests :
        (Finished(r) /\ Extracted(r) /\ NoBraces(resultText[r])) => NoJsonAnswer(r)

\* C7, amended: every finished request whose extracted text holds no brace
\* and is not by itself a JSON value is answered 500 with error No valid
\* JSON found in AI response.
C7_NoBracesNotJsonParseError ==
    \A r \in Requests :
        (Finished(r) /\ Extracted(r) /\ NoBraces(resultText[r])
            /\ ~JSONParse(resultText[r]).ok) => NoJsonAnswer(r)

C7_Witness ==
    \E r \in Requests :
        /\ Finished(r)
        /\ Extracted(r)
        /\ NoBraces(resultText[r])
        /\ \E i \in 1..Len(resultText[r]) : HasAt(resultText[r], i, Fence)
        /\ ~JSONParse(resultText[r]).ok
        /\ NoJsonAnswer(r)

\* A field holds a non-empty text.
HasText(f) == f.has /\ f.val # <<>>

\* C8: a finished request whose upstream call resolved with a response of
\* none of the three shapes, null and undefined included, is answered 500
\* with error Unexpected API response structure and the top-level keys of
\* the response, and nothing else.
C8_UnrecognizedIsExtractionError ==
    \A r \in Requests :
        (Finished(r) /\ Succeeded(r)
            /\ ~HasText(response[r].text)
            /\ ~HasText(response[r].cand)
            /\ response[r].kind # "string") =>
                /\ Len(res[r]) = 1
                /\ Answer(r).status = 500
                /\ Answer(r).error = "Unexpected API response structure"
                /\ Answer(r).present = {"error", "responseKeys"}
                /\ Answer(r).responseKeys = response[r].keys

\* C9: the extracted text is the direct text field when that is non-empty,
\* whatever the nested candidate holds; the nested candidate text only when
\* the direct field is absent or empty; and the response itself only when
\* it is a string and neither of the two applies.
C9_ExtractionPriority ==
    \A r \in Requests :
        Extracted(r) =>
            /\ HasText(response[r].text) => resultText[r] = response[r].text.val
            /\ (~HasText(response[r].text) /\ HasText(response[r].cand))
                  => resultText[r] = response[r].cand.val
            /\ (~HasText(response[r].text) /\ ~HasText(response[r].cand))
                  => response[r].kind = "string" /\ resultText[r] = response[r].str

C9_Witness ==
    \E r \in Requests :
        /\ Finished(r)
        /\ Extracted(r)
        /\ HasText(response[r].text)
        /\ HasText(response[r].cand)
        /\ response[r].text.val # response[r].cand.val
        /\ resultText[r] = response[r].text.val

\* The request is answered 200 with the mapping m as the document.
AnsweredWith(r, m) ==
    /\ pc[r] = "Done"
    /\ Len(res[r]) = 1
    /\ Answer(r).status = 200
    /\ Answer(r).present = {}
    /\ Answer(r).json = m

\* C10 as stated: whenever the extracted text of a finished request is
\* prose, a json-tagged fenced block holding the serialization of a mapping
\* m, and prose, the request is answered 200 with m.
C10_FencedRoundTrip ==
    \A r \in Requests :
        (Finished(r) /\ Extracted(r)) =>
            \A a \in ProseBefore, m \in Mappings, b \in ProseAfter :
                resultText[r] = a \o Fenced(TRUE, m) \o b => AnsweredWith(r, m)

\* The prose a holds a fence that is followed, after an optional json tag and
\* optional white space, by an opening brace.
OpensFencedObject(a) ==
    \E i \in 1..Len(a) :
        /\ HasAt(a, i, Fence)
        /\ \/ LET p == SkipWs(a, i + 3) IN p <= Len(a) /\ a[p] = LB
           \/ /\ HasAt(a, i + 3, JsonTag)
              /\ LET p == SkipWs(a, i + 7) IN p <= Len(a) /\ a[p] = LB

\* A closing brace of the serialization m other than its last character is
\* followed, after optional white space, by a fence.
ClosesFenceInside(m) ==
    \E q \in 1..(Len(m) - 1) : m[q] = RB /\ HasAt(m, SkipWs(m, q + 1), Fence)

\* Where the round trip does hold: for every mapping m and prose a, b where
\* a opens no fenced object of its own and no closing brace inside the
\* serialization of m is followed by a fence.
FencedRoundTripGuarded ==
    \A r \in Requests :
        (Finished(r) /\ Extracted(r)) =>
            \A a \in ProseBefore, m \in Mappings, b \in ProseAfter :
                (/\ resultText[r] = a \o Fenced(TRUE, m) \o b
                 /\ ~OpensFencedObject(a)
                 /\ ~ClosesFenceInside(m)) => AnsweredWith(r, m)

\* The first upstream call of the request resolved.
FirstAttemptSucceeded(r) == outcomes[r] # <<>> /\ outcomes[r][1].ok

\* The text is the serialization of the value v, bare or between white space.
SerializationOf(text, v) == text \in {v, <<NL>> \o v \o <<SP>>}

\* C11: when the tab list is not empty, the first upstream call resolves and
\* the extracted text is the serialization of a mapping m, the request ends
\* Done with status 200 and the document m itself, after exactly one upstream
\* call, no wait and no rejection.
C11_HappyPathVerbatim ==
    \A r \in Requests :
        (/\ Finished(r)
         /\ tabs[r].present /\ Len(tabs[r].items) > 0
         /\ FirstAttemptSucceeded(r)) =>
            /\ calls[r] = 1 /\ Len(outcomes[r]) = 1 /\ waits[r] = <<>>
            /\ \A m \in Mappings :
                  (Extracted(r) /\ SerializationOf(resultText[r], m))
                      => AnsweredWith(r, m) /\ groups[r] = m

C11_Witness ==
    \E r \in Requests :
        /\ Len(tabs[r].items) = 2
        /\ FirstAttemptSucceeded(r)
        /\ resultText[r] = <<LB>> \o Quoted(<<"x">>) \o <<CL, LK, RK, RB>>
        /\ AnsweredWith(r, <<LB>> \o Quoted(<<"x">>) \o <<CL, LK, RK, RB>>)
        /\ calls[r] = 1

\* The input error: tabs is missing or empty.
InputError(r) == ~tabs[r].present \/ Len(tabs[r].items) = 0

\* C12: a finished request carries one of the statuses 200, 400 and 500; the
\* status is 400 exactly when tabs is missing or empty (and then no upstream
\* call was made); every other failure, whether the upstream was exhausted,
\* the text not found, the JSON not recovered, the structure refused or an
\* exception caught, is 500; and 200 is the status of Done alone, reached only
\* with tabs accepted, the last upstream call resolved, a text extracted, and
\* a parsed value the structure check let through (typeof object, not null).
C12_StatusByOutcome ==
    \A r \in Requests :
        Finished(r) =>
            /\ Len(res[r]) = 1
            /\ Answer(r).status \in {200, 400, 500}
            /\ Answer(r).status = 400 <=> InputError(r)
            /\ Answer(r).status = 400 =>
                  /\ pc[r] = "Failed"
                  /\ calls[r] = 0
                  /\ Answer(r).error = "No tabs provided"
            /\ (pc[r] = "Failed" /\ ~InputError(r)) =>
                  /\ Answer(r).status = 500
                  /\ Answer(r).error \in
                        {"Something went wrong",
                         "Unexpected API response structure",
                         "Failed to parse AI response as JSON",
                         "No valid JSON found in AI response",
                         "Invalid response structure from AI"}
            /\ Answer(r).status = 200 <=> pc[r] = "Done"
            /\ pc[r] = "Done" =>
                  /\ ~InputError(r)
                  /\ Succeeded(r)
                  /\ Extracted(r)
                  /\ groups[r] # <<>>
                  /\ groups[r][1] \in {LB, LK}
                  /\ Answer(r).json = groups[r]

C12_Witness ==
    \E r \in Requests :
        /\ pc[r] = "Failed"
        /\ tabs[r].present
        /\ tabs[r].items = <<>>
        /\ Len(res[r]) = 1
        /\ Answer(r).status = 400

\* The stage of a request: the backoff wait belongs to the attempt loop of
\* Invoking.
StageOf(p) == IF p = "Waiting" THEN "Invoking" ELSE p

\* The stage that follows a stage on the way to Done.
StageAfter(st) ==
    CASE st = "Validating" -> "Invoking"
      [] st = "Invoking" -> "Extracting"
      [] st = "Extracting" -> "Recovering"
      [] st = "Recovering" -> "ValidatingShape"
      [] st = "ValidatingShape" -> "Done"
      [] OTHER -> "None"

\* What one step does to the stage of request r: it stays (inside Invoking
\* only by a new attempt or a wait), moves to the next stage, or fails; a
\* new upstream call starts only on entering Invoking or inside it; a
\* finished request changes nothing, makes no call and sends no response.
StageStep(r) ==
    LET from == StageOf(pc[r])
        to == StageOf(pc'[r])
    IN  /\ to \in {from, StageAfter(from), "Failed"}
        /\ from = "Idle" => to = "Idle"
        /\ (to = from /\ pc'[r] # pc[r]) => from = "Invoking"
        /\ to = "Failed" => from \in {"Validating", "Invoking", "Extracting",
                                      "Recovering", "ValidatingShape", "Failed"}
        /\ calls'[r] \in {calls[r], calls[r] + 1}
        /\ calls'[r] # calls[r] => pc'[r] = "Invoking" /\ pc[r] \in {"Validating", "Waiting"}
        /\ Finished(r) =>
              /\ pc'[r] = pc[r]
              /\ calls'[r] = calls[r]
              /\ outcomes'[r] = outcomes[r]
              /\ res'[r] = res[r]

\* C13: every step of every request follows the order Validating, Invoking,
\* Extracting, Recovering, ValidatingShape, Done, one stage at a time, with
\* Failed as the only other target; the only repetition is the attempt loop
\* inside Invoking; after Done or Failed the request makes no step and no
\* upstream call.  A request that is Done went through every stage: it made
\* an upstream call that resolved, has a text extracted and a value parsed.
C13_StageOrder ==
    /\ [][\A r \in Requests : StageStep(r)]_vars
    /\ [](\A r \in Requests :
             pc[r] = "Done" =>
                /\ calls[r] >= 1
                /\ Succeeded(r)
                /\ resultText[r] # <<>>
                /\ groups[r] # <<>>)

\* A request failed at the last stage before Done, after the attempt loop
\* of Invoking was repeated.
C13_Witness ==
    \E r \in Requests :
        /\ pc[r] = "Failed"
        /\ calls[r] = 3
        /\ Len(waits[r]) = 2
        /\ Succeeded(r)
        /\ groups[r] # <<>>
        /\ Len(res[r]) = 1
        /\ Answer(r).error = "Invalid response structure from AI"

\* The requests that failed at each of the other stages.
FailedAtValidating == \E r \in Requests : pc[r] = "Failed" /\ calls[r] = 0
FailedAtInvoking ==
    \E r \in Requests : pc[r] = "Failed" /\ Len(outcomes[r]) = 3 /\ AllRejected(r)
FailedAtExtracting ==
    \E r \in Requests :
        /\ pc[r] = "Failed"
        /\ Succeeded(r)
        /\ resultText[r] = <<>>
FailedAtRecovering ==
    \E r \in Requests :
        /\ pc[r] = "Failed"
        /\ resultText[r] # <<>>
        /\ groups[r] = <<>>

\* The number of rejected upstream calls of the request.
Rejections(r) == Cardinality({i \in 1..Len(outcomes[r]) : ~outcomes[r][i].ok})

RECURSIVE SumOf(_)
SumOf(w) == IF w = <<>> THEN 0 ELSE w[1] + SumOf(Tail(w))

\* C14: the k-th wait of a request lasts 1000*k milliseconds, for every
\* error message; a request has waited once per rejection up to two, never
\* after the third; attempt k+1 starts only after wait k has been set and its
\* timer has fired; the waits of a request add up to at most 3000.
C14_BackoffSchedule ==
    \A r \in Requests :
        /\ \A k \in 1..Len(waits[r]) : waits[r][k] = 1000 * k
        /\ Len(waits[r]) <= 2
        /\ Len(waits[r]) = (IF Rejections(r) <= 2 THEN Rejections(r) ELSE 2)
        /\ Rejections(r) = 3 => pc[r] = "Failed" /\ calls[r] = 3
        /\ pc[r] = "Waiting" => calls[r] = Len(waits[r]) /\ ~Succeeded(r)
        /\ pc[r] = "Invoking" => calls[r] = Len(waits[r]) + 1
        /\ calls[r] <= Len(waits[r]) + 1
        /\ SumOf(waits[r]) <= 3000

\* Two failures of different kinds, each followed by its wait, and a third
\* attempt under way.
C14_Witness ==
    \E r \in Requests :
        /\ pc[r] = "Invoking"
        /\ calls[r] = 3
        /\ Len(outcomes[r]) = 2
        /\ outcomes[r][1].msg # outcomes[r][2].msg
        /\ waits[r] = <<1000, 2000>>

\* Position p of the text holds an opening brace that stands, after optional
\* white space, behind a fence or a fence tagged json.
OpensAfterFence(s, p) ==
    /\ s[p] = LB
    /\ \E i \in 1..(p - 3) :
          /\ HasAt(s, i, Fence)
          /\ \/ \A j \in (i + 3)..(p - 1) : IsWs(s[j])
             \/ /\ HasAt(s, i + 3, JsonTag)
                /\ \A j \in (i + 7)..(p - 1) : IsWs(s[j])

\* Position q of the text holds a closing brace that is followed, after
\* optional white space, by a fence.
ClosesBeforeFence(s, q) ==
    /\ s[q] = RB
    /\ \E e \in (q + 1)..Len(s) :
          /\ HasAt(s, e, Fence)
          /\ \A j \in (q + 1)..(e - 1) : IsWs(s[j])

\* The fenced objects of a text: the spans from a brace opening behind a
\* fence to a later brace closing before a fence.
FencedSpans(s) ==
    {sp \in {p \in 1..Len(s) : OpensAfterFence(s, p)}
            \X {q \in 1..Len(s) : ClosesBeforeFence(s, q)} : sp[1] < sp[2]}

\* The first fenced object: the one that opens first and closes soonest.
FirstFencedSpan(s) ==
    CHOOSE sp \in FencedSpans(s) :
        \A other \in FencedSpans(s) :
            \/ sp[1] < other[1]
            \/ sp[1] = other[1] /\ sp[2] <= other[2]

\* The span from the first opening brace of a text to its last closing one.
OuterBraces(s) ==
    LET opens == {p \in 1..Len(s) : s[p] = LB}
        closes == {q \in 1..Len(s) : s[q] = RB}
    IN  {sp \in opens \X closes :
            /\ sp[1] < sp[2]
            /\ \A p \in opens : sp[1] <= p
            /\ \A q \in closes : q <= sp[2]}

ParseFailedAnswer(r) ==
    /\ pc[r] = "Failed"
    /\ Len(res[r]) = 1
    /\ Answer(r).status = 500
    /\ Answer(r).error = "Failed to parse AI response as JSON"

\* The request ended as the parse of the candidate span sp of its text
\* decides: answered with the parsed mapping, or failed with the parse error.
DecidedBy(r, sp) ==
    LET inner == JSONParse(SubSeq(resultText[r], sp[1], sp[2]))
    IN  IF inner.ok THEN AnsweredWith(r, inner.val) ELSE ParseFailedAnswer(r)

\* C15: a finished request whose extracted text does not parse as a whole
\* ended as its one candidate decides: the first fenced object when the text
\* has a fenced object, whatever braces stand elsewhere; otherwise the span
\* from the first opening brace to the last closing brace; and with no
\* candidate at all, the error No valid JSON found in AI response.
C15_CandidateOrder ==
    \A r \in Requests :
        (Finished(r) /\ Extracted(r) /\ ~JSONParse(resultText[r]).ok) =>
            IF FencedSpans(resultText[r]) # {}
            THEN DecidedBy(r, FirstFencedSpan(resultText[r]))
            ELSE IF OuterBraces(resultText[r]) # {}
            THEN \A sp \in OuterBraces(resultText[r]) : DecidedBy(r, sp)
            ELSE pc[r] = "Failed" /\ NoJsonAnswer(r)

\* A fenced mapping behind a bare opening brace and before a bare closing
\* one: the fenced mapping is the answer, and the span of the outer braces
\* would not have parsed.
C15_Witness ==
    \E r \in Requests :
        LET m == <<LB>> \o Quoted(<<"x">>) \o <<CL, "1", RB>>
        IN  /\ resultText[r] = <<LB>> \o Fenced(FALSE, m) \o <<RB>>
            /\ AnsweredWith(r, m)

\* The fenced candidate fails to parse and the request fails, although the
\* span of the outer braces parses.
FencedCandidateNotRetried ==
    \E r \in Requests :
        /\ ParseFailedAnswer(r)
        /\ FencedSpans(resultText[r]) # {}
        /\ \E sp \in OuterBraces(resultText[r]) :
              JSONParse(SubSeq(resultText[r], sp[1], sp[2])).ok

\* The request was answered with an error document.
ErrorAnswer(r) == Finished(r) /\ Len(res[r]) = 1 /\ Answer(r).status # 200

\* x is the prefix of the text of length min(500, length of the text).
ExcerptOf(x, text) ==
    /\ Len(x) = (IF Len(text) < 500 THEN Len(text) ELSE 500)
    /\ \A i \in 1..Len(x) : x[i] = text[i]

\* In every error answer that has a rawResponse field, the field is the
\* excerpt of the extracted text; the other error answers have no such field.
RawResponseIsExcerpt ==
    \A r \in Requests :
        ErrorAnswer(r) =>
            IF Answer(r).error \in {"Failed to parse AI response as JSON",
                                    "No valid JSON found in AI response"}
            THEN /\ "rawResponse" \in Answer(r).present
                 /\ ExcerptOf(Answer(r).rawResponse, resultText[r])
            ELSE /\ "rawResponse" \notin Answer(r).present
                 /\ Answer(r).rawResponse = <<>>

\* C16 as stated: in every error answer the rawResponse field of a parse
\* failure is the excerpt of the extracted text, and no field of any error
\* answer holds a text of more than 500 characters: not the document, not
\* rawResponse, not received.
C16_ErrorsCarryBoundedExcerpt ==
    /\ RawResponseIsExcerpt
    /\ \A r \in Requests :
          ErrorAnswer(r) =>
              /\ Answer(r).json = <<>>
              /\ Len(Answer(r).rawResponse) <= 500
              /\ Len(Answer(r).received) <= 500

\* A text longer than the limit is cut to 500 characters in the parse error.
ExcerptIsCut ==
    \E r \in Requests :
        /\ ParseFailedAnswer(r)
        /\ Len(resultText[r]) > 500
        /\ Len(Answer(r).rawResponse) = 500

\* A step changes something of request r.
Changed(r) ==
    \/ pc'[r] # pc[r] \/ tabs'[r] # tabs[r] \/ prompt'[r] # prompt[r]
    \/ attempts'[r] # attempts[r] \/ calls'[r] # calls[r]
    \/ waits'[r] # waits[r] \/ outcomes'[r] # outcomes[r]
    \/ response'[r] # response[r] \/ resultText'[r] # resultText[r]
    \/ groups'[r] # groups[r] \/ res'[r] # res[r]

\* C17: with two requests interleaving, every request makes at most 3
\* upstream calls; its attempt counter is the number of its own rejected
\* calls; the response it holds is the one its own last call resolved with;
\* two finished requests with the same tabs and the same upstream outcomes
\* were sent the same answer, whatever happened to the other meanwhile; and
\* no step changes anything of two requests.
C17_RequestsIsolated ==
    /\ [](\A r \in Requests :
             /\ calls[r] <= 3
             /\ attempts[r] = Rejections(r)
             /\ attempts[r] <= 3
             /\ Len(waits[r]) = (IF attempts[r] <= 2 THEN attempts[r] ELSE 2)
             /\ prompt[r] \in {<<>>, [i \in 1..Len(tabs[r].items) |-> tabs[r].items[i].id]}
             /\ Succeeded(r) => response[r] = outcomes[r][Len(outcomes[r])].resp
             /\ ~Succeeded(r) => response[r] = NoResponse
             /\ pc[r] = "Done" => Answer(r).json = groups[r])
    /\ [](\A p, q \in Requests :
             (/\ Finished(p) /\ Finished(q)
              /\ tabs[p] = tabs[q]
              /\ outcomes[p] = outcomes[q]) =>
                 /\ pc[p] = pc[q]
                 /\ res[p] = res[q]
                 /\ calls[p] = calls[q])
    /\ [][\A p, q \in Requests : (Changed(p) /\ Changed(q)) => p = q]_vars

\* One request used up its three attempts while the other, failing once
\* between them, was answered 200 from its second call.
C17_Witness ==
    /\ pc["r1"] = "Failed"
    /\ Rejections("r1") = 3
    /\ pc["r2"] = "Done"
    /\ Rejections("r2") = 1
    /\ calls["r2"] = 2
    /\ Answer("r2").json = <<LB, RB>>

\* C18: a request has been sent no response while its handler runs and
\* exactly one once it is Done or Failed, the two ways the handler ends; a
\* response is sent only by the step that ends the request, so none follows
\* the first, from the top-level catch or elsewhere.
C18_ExactlyOneResponse ==
    /\ [](\A r \in Requests :
             /\ Len(res[r]) <= 1
             /\ Finished(r) <=> Len(res[r]) = 1
             /\ ~Finished(r) =>
                   pc[r] \in {"Idle", "Validating", "Invoking", "Waiting",
                              "Extracting", "Recovering", "ValidatingShape"})
    /\ [][\A r \in Requests :
             /\ Len(res'[r]) >= Len(res[r])
             /\ res'[r] # res[r] =>
                   /\ res[r] = <<>>
                   /\ Len(res'[r]) = 1
                   /\ ~Finished(r)
                   /\ pc'[r] \in {"Done", "Failed"}]_vars

\* A request whose exception reached the top-level catch after the upstream
\* had answered: one response, the one of the catch.
C18_Witness ==
    \E r \in Requests :
        /\ pc[r] = "Failed"
        /\ Succeeded(r)
        /\ Len(res[r]) = 1
        /\ Answer(r).error = "Something went wrong"

\* Every upstream call of the request returns or fails.
UpstreamCompletes(r) == (pc[r] = "Invoking") ~> (pc[r] # "Invoking")

Answered(r) == Finished(r) /\ Len(res[r]) = 1

\* The request is suspended at its upstream call, unanswered.
AwaitsUpstream(r) == pc[r] = "Invoking" /\ res[r] = <<>>

\* C19: a request that has arrived and whose upstream calls all return or
\* fail is in the end Done or Failed with its response sent, after at most 3
\* upstream calls and 2 waits; every request that has arrived, whatever its
\* upstream does, is in the end either answered for good or suspended for
\* good at an upstream call; and an answered request stays answered.
C19_AnsweredUnlessUpstreamHangs ==
    \A r \in Requests :
        /\ (pc[r] # "Idle" /\ UpstreamCompletes(r)) =>
              <>(/\ Finished(r)
                 /\ Len(res[r]) = 1
                 /\ calls[r] <= 3
                 /\ Len(waits[r]) <= 2)
        /\ pc[r] # "Idle" => <>[](Answered(r) \/ AwaitsUpstream(r))
        /\ [](Finished(r) => [](Finished(r) /\ Len(res[r]) = 1))

\* A request answered after all the calls and waits it may make.
C19_Witness ==
    \E r \in Requests :
        /\ Finished(r)
        /\ Len(res[r]) = 1
        /\ calls[r] = 3
        /\ Len(waits[r]) = 2
        /\ Len(outcomes[r]) = 3

=============================================================================
